---- MODULE Spec2Model ----
(***************************************************************************)
(* A model of pyperf/_process_time.py: the harness that spawns a command   *)
(* `loops` times, measures wall time and the peak RSS delta of its         *)
(* children, optionally merges cProfile output, and runs hooks around the  *)
(* loop.  One action per statement group of main() and bench_process().    *)
(***************************************************************************)
EXTENDS Integers, Sequences, FiniteSets, TLC

\* ---------------------------------------------------------------- bounds
MaxLoops  == 3      \* largest loop count tried
MaxRss    == 2      \* largest value of the OS peak-RSS counter (ru_maxrss)
MaxCount  == 1      \* largest per-function call count one profiled run records
MaxStatus == 2      \* largest child exit status tried

\* --------------------------------------------------------- program constants
KiB == 1024         \* ru_maxrss * 1024 on platforms that report kilobytes

\* ------------------------------------------------------------ environment
Funcs == {"f", "g"}                 \* functions a profile can mention
KnownHooks == {"h1", "h2"}          \* names pyperf._hooks can resolve
HookRequests == { <<>>, <<"h2", "h1">>, <<"nope">>, <<"h1", "nope">> }
Platforms == {"darwin", "linux"}
Faults == {"none", "dump_open", "dump_write", "unlink", "rename"}
NoProfile == "None"
ProfilePath == "out.prof"

VARIABLES
    \* invocation (fixed by Init)
    in_sys_modules,     \* 'pyperf' in sys.modules
    short_argv,         \* len(sys.argv) < 3
    profile_filename,   \* NoProfile or the --profile path
    hook_names,         \* the --hook names, in command-line order
    loops,              \* int(sys.argv[1])
    resource,           \* TRUE iff the resource module was imported
    platform,           \* sys.platform
    dst0,               \* the file at the profile path when the harness starts
    \* control
    pc, pending, exitstatus,
    \* streams
    stdout, stderr,
    \* hooks
    hook_managers, stack, entered, exited, torndown, metadata,
    \* benchmark loop
    i, spawned, proc, exitcode,
    ru_maxrss, start_rss, max_rss,
    perf_reads, now, start_time, dt,
    \* files
    tmp, dst, run_sum,
    \* what the operating system saw
    pre_samples,        \* calls of get_max_rss before a spawn
    post_samples,       \* calls of get_max_rss after a child exited with 0
    live,               \* children started and not yet waited for
    delta_max           \* largest rise of the children's ru_maxrss over one child

cfgVars  == <<in_sys_modules, short_argv, profile_filename, hook_names, loops,
              resource, platform, dst0>>
ctlVars  == <<pc, pending, exitstatus>>
ioVars   == <<stdout, stderr>>
hookVars == <<hook_managers, stack, entered, exited, torndown, metadata>>
loopVars == <<i, spawned, proc, exitcode>>
rssVars  == <<ru_maxrss, start_rss, max_rss>>
timeVars == <<perf_reads, now, start_time, dt>>
fsVars   == <<tmp, dst, run_sum>>
obsVars  == <<pre_samples, post_samples, live, delta_max>>
vars == <<cfgVars, ctlVars, ioVars, hookVars, loopVars, rssVars, timeVars, fsVars,
          obsVars>>

\* ------------------------------------------------------------------ helpers
Last(s) == s[Len(s)]
Front(s) == SubSeq(s, 1, Len(s) - 1)
Max(a, b) == IF a >= b THEN a ELSE b
SeqRange(s) == { s[k] : k \in 1..Len(s) }
Reverse(s) == [k \in 1..Len(s) |-> s[Len(s) + 1 - k]]

\* pstats data: per-function call counts
ZeroStats == [f \in Funcs |-> 0]
RunStats == [Funcs -> 0..MaxCount]
\* what an earlier invocation may have left at the profile path
PriorStats == { [f \in Funcs |-> IF f = "f" THEN 1 ELSE 0] }
RECURSIVE SumOver(_, _)
SumOver(s, fs) ==
    IF fs = {} THEN 0
    ELSE LET f == CHOOSE x \in fs : TRUE IN s[f] + SumOver(s, fs \ {f})
Total(s) == SumOver(s, Funcs)
Plus(a, b) == [f \in Funcs |-> a[f] + b[f]]

\* a path of the filesystem: absent, unreadable as pstats, or a pstats dump
Absent == [exists |-> FALSE, ok |-> FALSE, stats |-> ZeroStats]
Corrupt == [exists |-> TRUE, ok |-> FALSE, stats |-> ZeroStats]
StatsFile(s) == [exists |-> TRUE, ok |-> TRUE, stats |-> s]

\* pstats.Stats.add: counts are summed per function
\* mutant: the destination's counts are replaced by the source's
StatsAdd_replace(a, b) == b
StatsAdd(a, b) == [f \in Funcs |-> a[f] + b[f]]

\* ------------------------------------------------------------- get_max_rss
\* ru_maxrss is what resource.getrusage(resource_type).ru_maxrss reads
get_max_rss(children) ==
    IF resource
    THEN LET resource_type == IF children THEN "RUSAGE_CHILDREN" ELSE "RUSAGE_SELF"
             usage == ru_maxrss[resource_type]
         IN  IF platform = "darwin" THEN usage ELSE usage * KiB
    ELSE 0

\* ------------------------------------------------ merge_profile_stats_files
Returned(s, d) == [src |-> s, dst |-> d, raised |-> "none"]
Raised(s, d, step) == [src |-> s, dst |-> d, raised |-> step]

\* mutant: the source is deleted before the destination is written
merge_unlink_first(src, dest, fault) ==
    IF dest.exists
    THEN IF ~(src.exists /\ src.ok) THEN Raised(src, dest, "load_src")
         ELSE IF ~dest.ok THEN Raised(src, dest, "load_dst")
         ELSE IF fault = "dump_open" THEN Raised(Absent, dest, "dump")
         ELSE IF fault = "dump_write" THEN Raised(Absent, Corrupt, "dump")
         ELSE Returned(Absent, StatsFile(StatsAdd(dest.stats, src.stats)))
    ELSE IF ~src.exists \/ fault = "rename" THEN Raised(src, dest, "rename")
         ELSE Returned(Absent, src)
\* mutant: the source is left behind after a successful merge
merge_keep_source(src, dest, fault) ==
    IF dest.exists
    THEN IF ~(src.exists /\ src.ok) THEN Raised(src, dest, "load_src")
         ELSE IF ~dest.ok THEN Raised(src, dest, "load_dst")
         ELSE Returned(src, StatsFile(StatsAdd(dest.stats, src.stats)))
    ELSE IF ~src.exists \/ fault = "rename" THEN Raised(src, dest, "rename")
         ELSE Returned(Absent, src)
merge_profile_stats_files(src, dest, fault) ==
    IF dest.exists                                   \* os.path.isfile(dst)
    THEN IF ~(src.exists /\ src.ok)                  \* pstats.Stats(src)
         THEN Raised(src, dest, "load_src")
         ELSE IF ~dest.ok                            \* pstats.Stats(dst)
         THEN Raised(src, dest, "load_dst")
         ELSE IF fault = "dump_open"                 \* dump_stats: open fails
         THEN Raised(src, dest, "dump")
         ELSE IF fault = "dump_write"                \* dump_stats: write fails
         THEN Raised(src, Corrupt, "dump")
         ELSE IF fault = "unlink"                    \* os.unlink(src) fails
         THEN Raised(src, StatsFile(StatsAdd(dest.stats, src.stats)), "unlink")
         ELSE Returned(Absent, StatsFile(StatsAdd(dest.stats, src.stats)))
    ELSE IF ~src.exists \/ fault = "rename"          \* os.rename(src, dst)
         THEN Raised(src, dest, "rename")
         ELSE Returned(Absent, src)

\* ---------------------------------------------------------------- the lines
Line(kind, num, meta) == [kind |-> kind, num |-> num, meta |-> meta]

\* ------------------------------------------------------- process termination
NoPending == [kind |-> "none", code |-> 0, step |-> "none"]
SystemExit(code) == [kind |-> "SystemExit", code |-> code, step |-> "none"]
Exception(step) == [kind |-> "Exception", code |-> 1, step |-> step]

\* the interpreter's exit: sys.exit(k) ends with status k and prints nothing,
\* an uncaught exception prints a traceback to stderr and ends with status 1
Terminate(p) ==
    /\ pc' = "done"
    /\ pending' = p
    /\ exitstatus' = p.code
    /\ stderr' = IF p.kind = "Exception"
                 THEN Append(stderr, Line("traceback", 0, {}))
                 ELSE stderr

Init ==
    /\ in_sys_modules \in BOOLEAN
    /\ short_argv \in BOOLEAN
    /\ profile_filename \in {NoProfile, ProfilePath}
    /\ hook_names \in HookRequests
    /\ loops \in 1..MaxLoops
    /\ resource \in BOOLEAN
    /\ platform \in Platforms
    /\ dst0 \in {Absent, Corrupt} \cup { StatsFile(s) : s \in PriorStats }
    /\ (profile_filename = NoProfile => dst0 = Absent)
    /\ pc = "main"
    /\ pending = NoPending
    /\ exitstatus = 0
    /\ stdout = <<>>
    /\ stderr = <<>>
    /\ hook_managers = <<>>
    /\ stack = <<>>
    /\ entered = <<>>
    /\ exited = <<>>
    /\ torndown = <<>>
    /\ metadata = {}
    /\ i = 0
    /\ spawned = 0
    /\ proc = "none"
    /\ exitcode = 0
    /\ ru_maxrss = [t \in {"RUSAGE_SELF", "RUSAGE_CHILDREN"} |->
                        IF t = "RUSAGE_SELF" THEN 1 ELSE 0]
    /\ start_rss = 0
    /\ max_rss = 0
    /\ perf_reads = 0
    /\ now = 0
    /\ start_time = 0
    /\ dt = 0
    /\ tmp = Absent
    /\ dst = dst0
    /\ run_sum = ZeroStats
    /\ pre_samples = 0
    /\ post_samples = 0
    /\ live = 0
    /\ delta_max = 0

\* ------------------------------------------------------------------- main()
\* lines 136-139: the module must not be run through -m
main_guard ==
    /\ pc = "main"
    /\ IF in_sys_modules
       THEN /\ stdout' = Append(stdout, Line("error", 0, {}))
            /\ pc' = "done"
            /\ exitstatus' = 1
       ELSE /\ pc' = "usage"
            /\ UNCHANGED <<stdout, exitstatus>>
    /\ UNCHANGED <<cfgVars, obsVars, pending, stderr, hookVars, loopVars, rssVars, timeVars, fsVars>>

\* lines 142-154: the argument count, then the --profile option
main_usage ==
    /\ pc = "usage"
    /\ IF short_argv
       THEN /\ stdout' = Append(stdout, Line("usage", 0, {}))
            /\ pc' = "done"
            /\ exitstatus' = 1
       ELSE /\ pc' = "load_hooks"
            /\ UNCHANGED <<stdout, exitstatus>>
    /\ UNCHANGED <<cfgVars, obsVars, pending, stderr, hookVars, loopVars, rssVars, timeVars, fsVars>>

\* pyperf._hooks.instantiate_selected_hooks: one manager per name, in the
\* order requested; an unknown name is an error
instantiate_selected_hooks(names) ==
    IF SeqRange(names) \subseteq KnownHooks
    THEN [ok |-> TRUE, managers |-> names]
    ELSE [ok |-> FALSE, managers |-> <<>>]

\* line 116: metadata["hooks"] = ", ".join(hook_managers.keys())
\* mutant: one key per hook is written instead of the "hooks" key
hooks_metadata_per_hook(meta, managers) == meta \cup SeqRange(managers)
hooks_metadata(meta, managers) == meta \cup {"hooks"}

\* mutant: the resolution error is swallowed and the run goes on with no hook
load_hooks_swallow_error ==
    /\ pc = "load_hooks"
    /\ LET r == instantiate_selected_hooks(hook_names) IN
       /\ hook_managers' = r.managers
       /\ metadata' = IF Len(r.managers) # 0
                      THEN hooks_metadata(metadata, r.managers)
                      ELSE metadata
    /\ pc' = "setup"
    /\ UNCHANGED <<cfgVars, obsVars, pending, exitstatus, ioVars, stack, entered, exited,
                   torndown, loopVars, rssVars, timeVars, fsVars>>

\* lines 102-120 (called at 157)
load_hooks ==
    /\ pc = "load_hooks"
    /\ IF Len(hook_names) # 0
       THEN LET r == instantiate_selected_hooks(hook_names) IN
            IF r.ok
            THEN /\ hook_managers' = r.managers
                 /\ metadata' = hooks_metadata(metadata, r.managers)
                 /\ pc' = "setup"
                 /\ UNCHANGED <<pending, exitstatus, stderr>>
            ELSE /\ Terminate(Exception("resolve"))
                 /\ UNCHANGED <<hook_managers, metadata>>
       ELSE /\ hook_managers' = <<>>
            /\ pc' = "setup"
            /\ UNCHANGED <<metadata, pending, exitstatus, stderr>>
    /\ UNCHANGED <<cfgVars, obsVars, stdout, stack, entered, exited, torndown,
                   loopVars, rssVars, timeVars, fsVars>>

\* lines 160-176: loops, args, the child's redirections, the ExitStack
main_setup ==
    /\ pc = "setup"
    /\ pc' = "enter"
    /\ UNCHANGED <<cfgVars, obsVars, pending, exitstatus, ioVars, hookVars, loopVars,
                   rssVars, timeVars, fsVars>>

\* ExitStack.enter_context: the hook's __exit__ is registered only when its
\* __enter__ returned
\* mutant: __exit__ is registered before __enter__ is called
enter_context_push_first(st, hook, raises) == Append(st, hook)
enter_context(st, hook, raises) == IF raises THEN st ELSE Append(st, hook)

\* lines 177-178: stack.enter_context(hook); a hook's __enter__ may raise
main_enter_context ==
    /\ pc = "enter"
    /\ Len(entered) < Len(hook_managers)
    /\ LET hook == hook_managers[Len(entered) + 1] IN
       \E raises \in BOOLEAN :
          /\ stack' = enter_context(stack, hook, raises)
          /\ IF raises
             THEN /\ pending' = Exception("enter")
                  /\ pc' = "exit_stack"
                  /\ UNCHANGED entered
             ELSE /\ entered' = Append(entered, hook)
                  /\ UNCHANGED <<pc, pending>>
    /\ UNCHANGED <<cfgVars, obsVars, exitstatus, ioVars, hook_managers, exited, torndown,
                   metadata, loopVars, rssVars, timeVars, fsVars>>

\* the for loop of lines 177-178 has gone through every hook
\* mutant: the loop is left before every hook is entered
hooks_entered_some == TRUE
hooks_entered == Len(entered) = Len(hook_managers)

\* ---------------------------------------------------------- bench_process()
\* lines 63-70 (called at 179 once every hook is entered)
bench_start ==
    /\ pc = "enter"
    /\ hooks_entered
    /\ max_rss' = 0
    /\ start_time' = now
    /\ perf_reads' = perf_reads + 1
    /\ pc' = "pre_sample"
    /\ UNCHANGED <<cfgVars, obsVars, pending, exitstatus, ioVars, hookVars, loopVars,
                   ru_maxrss, start_rss, now, dt, fsVars>>

\* line 73: the sample is taken anew in every iteration
\* mutant: the baseline is sampled in the first iteration only
pre_sample_once == IF i = 0 THEN get_max_rss(TRUE) ELSE start_rss
pre_sample == get_max_rss(TRUE)

\* mutant: the clock is read again at the start of every iteration
bench_pre_sample_timed ==
    /\ pc = "pre_sample"
    /\ start_rss' = pre_sample
    /\ pre_samples' = pre_samples + 1
    /\ start_time' = now
    /\ perf_reads' = perf_reads + 1
    /\ pc' = "spawn"
    /\ UNCHANGED <<cfgVars, post_samples, live, delta_max, pending, exitstatus,
                   ioVars, hookVars, loopVars, ru_maxrss, max_rss, now, dt, fsVars>>

\* line 73
bench_pre_sample ==
    /\ pc = "pre_sample"
    /\ start_rss' = pre_sample
    /\ pre_samples' = pre_samples + 1
    /\ pc' = "spawn"
    /\ UNCHANGED <<cfgVars, post_samples, live, delta_max, pending, exitstatus, ioVars, hookVars, loopVars,
                   ru_maxrss, max_rss, timeVars, fsVars>>

\* line 76: subprocess.Popen starts the child, or raises (no such command)
bench_spawn ==
    /\ pc = "spawn"
    /\ \E started \in BOOLEAN :
          IF started
          THEN /\ proc' = "running"
               /\ spawned' = spawned + 1
               /\ live' = live + 1
               /\ pc' = "wait"
               /\ UNCHANGED pending
          ELSE /\ pending' = Exception("spawn")
               /\ pc' = "exit_stack"
               /\ UNCHANGED <<proc, spawned, live>>
    /\ UNCHANGED <<cfgVars, pre_samples, post_samples, delta_max, exitstatus, ioVars, hookVars, i, exitcode,
                   rssVars, timeVars, fsVars>>

\* what a child can leave at the temporary profile path
ChildOutputs ==
    IF profile_filename # NoProfile
    THEN {Absent} \cup { StatsFile(s) : s \in RunStats }
    ELSE {Absent}

\* lines 77-80: the child runs and exits; the OS counter of the children's
\* peak RSS never decreases
bench_wait ==
    /\ pc = "wait"
    /\ \E k \in 0..MaxStatus, r \in ru_maxrss["RUSAGE_CHILDREN"]..MaxRss,
          out \in ChildOutputs :
          /\ (~resource => r = ru_maxrss["RUSAGE_CHILDREN"])
          /\ exitcode' = k
          /\ ru_maxrss' = [ru_maxrss EXCEPT !["RUSAGE_CHILDREN"] = r]
          /\ delta_max' = Max(delta_max, r - ru_maxrss["RUSAGE_CHILDREN"])
          /\ tmp' = out
          /\ run_sum' = IF k = 0 THEN Plus(run_sum, out.stats) ELSE run_sum
    /\ proc' = "exited"
    /\ live' = live - 1
    /\ now' = now + 1
    /\ pc' = "check_exit"
    /\ UNCHANGED <<cfgVars, pre_samples, post_samples, pending, exitstatus, ioVars, hookVars, i, spawned,
                   start_rss, max_rss, perf_reads, start_time, dt, dst>>

\* lines 82-83: the diagnostic of a failed child
print_failure(out, err, code) ==
    [stdout |-> out, stderr |-> Append(err, Line("failed", code, {}))]

\* line 86
\* mutant: the harness exits with a fixed status
exit_with_one(code) == SystemExit(1)
failure_exit(code) == SystemExit(code)

\* lines 84-85: os.unlink(temp_profile_filename), which raises when the file
\* is not there; the cumulative profile is not touched
\* mutant: the cumulative profile is deleted with the temporary file
failure_cleanup_all(t, d) ==
    [tmp |-> Absent, dst |-> Absent, raised |-> ~t.exists]
failure_cleanup(t, d) ==
    [tmp |-> IF t.exists THEN Absent ELSE t, dst |-> d, raised |-> ~t.exists]

\* line 81
\* mutant: the exit code is not looked at
child_failed_never(code) == FALSE
child_failed(code) == code # 0

\* lines 81-86
bench_check_exit ==
    /\ pc = "check_exit"
    /\ IF child_failed(exitcode)
       THEN /\ LET p == print_failure(stdout, stderr, exitcode) IN
                 /\ stdout' = p.stdout
                 /\ stderr' = p.stderr
            /\ IF profile_filename # NoProfile
               THEN LET c == failure_cleanup(tmp, dst) IN
                    /\ tmp' = c.tmp
                    /\ dst' = c.dst
                    /\ pending' = IF c.raised
                                  THEN Exception("unlink_temp")
                                  ELSE failure_exit(exitcode)
               ELSE /\ pending' = failure_exit(exitcode)
                    /\ UNCHANGED <<tmp, dst>>
            /\ pc' = "exit_stack"
       ELSE /\ pc' = "post_sample"
            /\ UNCHANGED <<pending, stdout, stderr, tmp, dst>>
    /\ UNCHANGED <<cfgVars, obsVars, exitstatus, hookVars, loopVars, rssVars, timeVars,
                   run_sum>>

\* lines 89-90
bench_post_sample ==
    /\ pc = "post_sample"
    /\ LET rss == get_max_rss(TRUE) - start_rss IN
       max_rss' = Max(max_rss, rss)
    /\ post_samples' = post_samples + 1
    /\ pc' = "merge"
    /\ UNCHANGED <<cfgVars, pre_samples, live, delta_max, pending, exitstatus, ioVars, hookVars, loopVars,
                   ru_maxrss, start_rss, timeVars, fsVars>>

\* line 72: for _ in range(loops), after `completed` iterations
\* mutant: the loop is left one iteration early
loop_next_short(completed) == IF completed + 1 < loops THEN "pre_sample" ELSE "return"
loop_next(completed) == IF completed < loops THEN "pre_sample" ELSE "return"

\* lines 93-96, then the loop head at 72
bench_merge ==
    /\ pc = "merge"
    /\ IF profile_filename # NoProfile
       THEN \E fault \in Faults :
               LET r == merge_profile_stats_files(tmp, dst, fault) IN
               /\ tmp' = r.src
               /\ dst' = r.dst
               /\ IF r.raised # "none"
                  THEN /\ pending' = Exception(r.raised)
                       /\ pc' = "exit_stack"
                       /\ UNCHANGED i
                  ELSE /\ i' = i + 1
                       /\ pc' = loop_next(i + 1)
                       /\ UNCHANGED pending
       ELSE /\ i' = i + 1
            /\ pc' = loop_next(i + 1)
            /\ UNCHANGED <<pending, tmp, dst>>
    /\ UNCHANGED <<cfgVars, obsVars, exitstatus, ioVars, hookVars, spawned, proc, exitcode,
                   rssVars, timeVars, run_sum>>

\* lines 98-99
bench_return ==
    /\ pc = "return"
    /\ dt' = now - start_time
    /\ perf_reads' = perf_reads + 1
    /\ pc' = "exit_stack"
    /\ UNCHANGED <<cfgVars, obsVars, pending, exitstatus, ioVars, hookVars, loopVars,
                   rssVars, now, start_time, fsVars>>

\* ---------------------------------------------- leaving the with block (176)
\* ExitStack.__exit__ pops the entered hooks, last entered first
\* mutant: the callbacks are run first entered first
exit_stack_pop_first(st) == [hook |-> Head(st), rest |-> Tail(st)]
exit_stack_pop(st) == [hook |-> Last(st), rest |-> Front(st)]

stack_exit_hook ==
    /\ pc = "exit_stack"
    /\ stack # <<>>
    /\ exited' = Append(exited, exit_stack_pop(stack).hook)
    /\ stack' = exit_stack_pop(stack).rest
    /\ UNCHANGED <<cfgVars, obsVars, ctlVars, ioVars, hook_managers, entered, torndown,
                   metadata, loopVars, rssVars, timeVars, fsVars>>

\* with every hook exited the pending SystemExit or exception ends the
\* process; otherwise main goes on (lines 181-182 close devnull)
stack_exit_done ==
    /\ pc = "exit_stack"
    /\ stack = <<>>
    /\ IF pending.kind = "none"
       THEN /\ pc' = "teardown"
            /\ UNCHANGED <<pending, exitstatus, stderr>>
       ELSE Terminate(pending)
    /\ UNCHANGED <<cfgVars, obsVars, stdout, hookVars, loopVars, rssVars, timeVars, fsVars>>

\* line 185: for hook in hook_managers.values()
\* mutant: the hooks are torn down last resolved first
teardown_order_reversed(managers) == Reverse(managers)
teardown_order(managers) == managers

\* lines 185-186: hook.teardown(metadata), in hook_managers order
main_teardown ==
    /\ pc = "teardown"
    /\ Len(torndown) < Len(hook_managers)
    /\ LET hook == teardown_order(hook_managers)[Len(torndown) + 1] IN
       /\ torndown' = Append(torndown, hook)
       /\ metadata' = metadata \cup {hook}
    /\ UNCHANGED <<cfgVars, obsVars, ctlVars, ioVars, hook_managers, stack, entered, exited,
                   loopVars, rssVars, timeVars, fsVars>>

\* lines 123-131
write_data(out, d, m, meta) ==
    out \o << Line("elapsed", d, {}),
              Line("memory", IF m # 0 THEN m ELSE -1, {}),   \* max_rss or -1
              Line("metadata", 0, meta) >>

\* line 188, then the interpreter exits with status 0
main_write_data ==
    /\ pc = "teardown"
    /\ Len(torndown) = Len(hook_managers)
    /\ stdout' = write_data(stdout, dt, max_rss, metadata)
    /\ pc' = "done"
    /\ exitstatus' = 0
    /\ UNCHANGED <<cfgVars, obsVars, pending, stderr, hookVars, loopVars, rssVars,
                   timeVars, fsVars>>

Next ==
    \/ main_guard
    \/ main_usage
    \/ load_hooks
    \/ main_setup
    \/ main_enter_context
    \/ bench_start
    \/ bench_pre_sample
    \/ bench_spawn
    \/ bench_wait
    \/ bench_check_exit
    \/ bench_post_sample
    \/ bench_merge
    \/ bench_return
    \/ stack_exit_hook
    \/ stack_exit_done
    \/ main_teardown
    \/ main_write_data

Spec == Init /\ [][Next]_vars
\* ==================================================================== claims
Profiling == profile_filename # NoProfile
ChildFailed == exitcode # 0
LoopPcs == {"pre_sample", "spawn", "wait", "check_exit", "post_sample", "merge", "return"}
ResultLines(out) ==
    /\ Len(out) = 3
    /\ out[1].kind = "elapsed"
    /\ out[2].kind = "memory"
    /\ out[3].kind = "metadata"

\* C1: without profiling, once a child has exited with status k # 0 no further
\* child is spawned, nothing is ever written to stdout, and the harness ends
\* with exit status k having written only the diagnostic, to stderr.
C1_ChildFailureExit ==
    (~Profiling /\ ChildFailed) =>
        /\ pc \in {"check_exit", "exit_stack", "done"}
        /\ spawned = i + 1
        /\ proc = "exited"
        /\ stdout = <<>>
        /\ (pc = "done" =>
               /\ exitstatus = exitcode
               /\ stderr = << Line("failed", exitcode, {}) >>)

\* C1 witness: the second child of three exits with status 2 and the harness
\* has ended
C1_Witness ==
    /\ ~Profiling /\ loops = 3 /\ i = 1 /\ exitcode = 2
    /\ pc = "done" /\ exitstatus = 2

\* C2 (as claimed): when the harness ends after a child failed, teardown has
\* run exactly once for every resolved hook, in activation order.
C2_TeardownOnChildFailure ==
    (pc = "done" /\ ChildFailed) => torndown = hook_managers

\* C3 (as claimed): on a successful run the second line is -1 exactly when
\* the resource module is missing, and otherwise it is the peak delta, >= 0.
C3_MemoryLine ==
    (pc = "done" /\ exitstatus = 0 /\ ResultLines(stdout)) =>
        /\ (stdout[2].num = -1) <=> ~resource
        /\ resource => (stdout[2].num = max_rss /\ stdout[2].num >= 0)

\* C4: the hooks exited so far, followed by the hooks still on the stack last
\* entered first, are the entered hooks in reverse; once the with block is
\* left (normally, by a failed child or by a merge error) every entered hook
\* has been exited exactly once, in reverse order of entry.
C4_ReverseDeactivation ==
    /\ exited \o Reverse(stack) = Reverse(entered)
    /\ (pc \in {"teardown", "done"} =>
           /\ stack = <<>>
           /\ exited = Reverse(entered)
           /\ Cardinality(SeqRange(exited)) = Len(exited))

\* C4 witness: two hooks were entered, the merge of the second iteration
\* failed, and the harness has ended
C4_Witness ==
    /\ pc = "done" /\ pending.kind = "Exception" /\ pending.step = "dump"
    /\ i = 1 /\ Len(entered) = 2 /\ exited = Reverse(entered)

\* C5: while the loop runs (from the start timestamp to the end timestamp,
\* and whenever a child is running) every resolved hook is entered and none
\* has been exited.
C5_HooksActiveInLoop ==
    (pc \in LoopPcs \/ proc = "running" \/ (perf_reads > 0 /\ pc = "enter")) =>
        /\ entered = hook_managers
        /\ stack = hook_managers
        /\ exited = <<>>

\* C5 witness: a child is running with two hooks active
C5_Witness ==
    /\ proc = "running" /\ pc = "wait" /\ Len(hook_managers) = 2
    /\ stack = hook_managers

\* C6 (as claimed): after n successful profiled iterations the artifact holds
\* exactly the sum of the n runs of this invocation and the temporary file is
\* gone.
C6_ProfileIsSumOfRuns ==
    (Profiling /\ i = loops) =>
        /\ dst = StatsFile(run_sum)
        /\ tmp = Absent

\* C6 (amended): after n successful profiled iterations the artifact holds
\* what was at the path when the harness started plus the sum of the n runs,
\* and the temporary file is gone.
C6_ProfileIsPriorPlusRuns ==
    (Profiling /\ i = loops) =>
        /\ dst = StatsFile(Plus(dst0.stats, run_sum))
        /\ tmp = Absent

\* C6 witness: three profiled iterations done on top of an earlier profile
C6_Witness ==
    /\ Profiling /\ loops = 3 /\ i = 3 /\ dst0.exists
    /\ Total(run_sum) >= 3 /\ pc = "done"

\* C7 (as claimed): with profiling, when the harness ends after a child
\* exited with status k # 0, no temporary profile file is left and the exit
\* status is k.
C7_ProfiledFailureExit ==
    (Profiling /\ pc = "done" /\ ChildFailed) =>
        /\ ~tmp.exists
        /\ exitstatus = exitcode

\* a step of bench_merge in which merge_profile_stats_files raised
MergeRaised == pc = "merge" /\ pending'.kind = "Exception"
\* a step of bench_merge in which merge_profile_stats_files returned
MergeReturned == pc = "merge" /\ Profiling /\ i' = i + 1

\* C8 (as claimed): a merge that raises leaves source and destination as they
\* were before the call.
C8_FailedMergeChangesNothing ==
    [][MergeRaised => (tmp' = tmp /\ dst' = dst)]_vars

\* C8 (amended): a merge that raises leaves the source as it was; the
\* destination is as it was when loading either file or the rename failed.
C8_FailedMergeKeepsSource ==
    [][MergeRaised =>
          /\ tmp' = tmp
          /\ (pending'.step \in {"load_src", "load_dst", "rename"} => dst' = dst)]_vars

\* C8 witness: the destination could not be loaded; both files are as before
C8_Witness ==
    /\ pc = "exit_stack" /\ pending.kind = "Exception" /\ pending.step = "load_dst"
    /\ tmp.exists /\ dst = dst0 /\ dst.exists

\* C9: a merge that returns has removed the source and left a destination:
\* the source's statistics if there was none, the per-function sum otherwise;
\* merging non-zero counts into an existing destination raises its total.
C9_SuccessfulMerge ==
    [][MergeReturned =>
          /\ tmp' = Absent
          /\ dst'.exists /\ dst'.ok
          /\ (~dst.exists => dst' = tmp)
          /\ (dst.exists => dst'.stats = Plus(dst.stats, tmp.stats))
          /\ ((dst.exists /\ Total(tmp.stats) > 0) =>
                 Total(dst'.stats) > Total(dst.stats))]_vars

\* C9 witness: two merges returned, the second into the destination the first
\* created
C9_Witness ==
    /\ Profiling /\ ~dst0.exists /\ i = 2 /\ pc = "pre_sample"
    /\ tmp = Absent /\ dst = StatsFile(run_sum) /\ Total(run_sum) >= 2

\* C10 (as claimed): the harness ends either with the three result lines on
\* stdout and status 0, or with nothing on stdout and a non-zero status.
C10_ResultOrNothing ==
    pc = "done" =>
        \/ (exitstatus = 0 /\ ResultLines(stdout))
        \/ (exitstatus # 0 /\ stdout = <<>>)
\* C11: teardown runs only once every entered hook has been exited and no
\* exception is in flight, goes through the resolved hooks in activation
\* order, and is complete, once per hook, before the result lines are written.
C11_TeardownOrder ==
    /\ (torndown # <<>> =>
           /\ stack = <<>>
           /\ exited = Reverse(entered)
           /\ entered = hook_managers
           /\ pending.kind = "none"
           /\ torndown = SubSeq(hook_managers, 1, Len(torndown)))
    /\ (stdout # <<>> /\ exitstatus = 0 /\ pc = "done" =>
           /\ torndown = hook_managers
           /\ torndown = entered
           /\ Cardinality(SeqRange(torndown)) = Len(torndown))
    /\ (pc = "teardown" => stdout = <<>>)

\* C11 witness: a successful run with two hooks has written its result
C11_Witness ==
    /\ pc = "done" /\ exitstatus = 0 /\ ResultLines(stdout)
    /\ Len(hook_managers) = 2 /\ torndown = hook_managers
\* C12 (as claimed): the metadata mapping is empty from startup through hook
\* resolution, hook activation and every loop iteration, until teardown.
C12_MetadataEmptyBeforeTeardown ==
    pc \in ({"main", "usage", "load_hooks", "setup", "enter", "exit_stack"} \cup LoopPcs)
        => metadata = {}

\* C12 (amended): the metadata mapping is written only by hook resolution,
\* which sets the key "hooks" when at least one hook is requested, and by
\* hook teardown; it is empty up to hook resolution and unchanged from then
\* through hook activation and every loop iteration.
C12_MetadataWrittenByResolutionAndTeardown ==
    /\ (pc \in {"main", "usage", "load_hooks"} => metadata = {})
    /\ (pc \in ({"setup", "enter", "exit_stack"} \cup LoopPcs) =>
           metadata = IF Len(hook_names) # 0 THEN {"hooks"} ELSE {})
    /\ (pc = "teardown" =>
           metadata = (IF Len(hook_names) # 0 THEN {"hooks"} ELSE {})
                          \cup SeqRange(torndown))

\* C12 witness: the second child is running and the only key is "hooks"
C12_Witness ==
    /\ pc = "wait" /\ i = 1 /\ Len(hook_managers) = 2 /\ metadata = {"hooks"}
UnknownHookRequested == ~(SeqRange(hook_names) \subseteq KnownHooks)

\* C13: when an unknown hook name is requested the harness gets no further
\* than hook resolution: no child is spawned, no hook is entered, no result
\* is written, and it ends with a non-zero status.
C13_UnknownHookFailsEarly ==
    UnknownHookRequested =>
        /\ pc \in {"main", "usage", "load_hooks", "done"}
        /\ spawned = 0
        /\ proc = "none"
        /\ entered = <<>>
        /\ hook_managers = <<>>
        /\ ~ResultLines(stdout)
        /\ (pc = "done" => exitstatus # 0)

\* C13 witness: a known name followed by an unknown one; resolution failed
C13_Witness ==
    /\ hook_names = <<"h1", "nope">> /\ pc = "done"
    /\ pending.kind = "Exception" /\ pending.step = "resolve"
    /\ spawned = 0 /\ entered = <<>>
ResultReturned == perf_reads = 2
\* the samples get_max_rss gives for a counter value
Sampled(counter) ==
    IF resource THEN (IF platform = "darwin" THEN counter ELSE counter * KiB) ELSE 0

\* C14: pre-sample, spawn and post-sample alternate, one pair around each
\* child, and when bench_process has returned a result exactly `loops`
\* children were spawned and exactly `loops` pre- and post-samples were taken.
C14_SamplePairsEqualLoops ==
    /\ post_samples <= spawned
    /\ spawned <= pre_samples
    /\ pre_samples <= post_samples + 1
    /\ (ResultReturned =>
           /\ spawned = loops
           /\ pre_samples = loops
           /\ post_samples = loops
           /\ i = loops
           /\ ~ChildFailed)

\* C14 witness: a result was returned after three iterations
C14_Witness ==
    /\ ResultReturned /\ loops = 3 /\ spawned = 3 /\ post_samples = 3
    /\ pc = "done" /\ exitstatus = 0

\* C15: the peak returned by bench_process is the sample of the largest rise
\* of the children's counter over a single child, each rise measured from the
\* counter's value when that child was spawned.
C15_PeakIsMaxDelta ==
    ResultReturned => max_rss = Sampled(delta_max)

\* C15 witness: the counter rose by one over each of two children, so the
\* largest rise over one child (1) differs from the rise over the loop (2)
C15_Witness ==
    /\ ResultReturned /\ resource /\ delta_max = 1
    /\ ru_maxrss["RUSAGE_CHILDREN"] = 2 /\ max_rss = Sampled(1)

\* C16: the clock is read at most twice; the first read precedes every
\* pre-sample and spawn; the second is made only when every iteration has
\* completed with its post-sample and merge; a run that fails never makes it
\* and computes no elapsed time; a run that writes a result made both.
C16_ClockReadTwice ==
    /\ perf_reads \in 0..2
    /\ (perf_reads = 0 => pre_samples = 0 /\ spawned = 0)
    /\ (perf_reads = 1 => dt = 0)
    /\ (perf_reads = 2 =>
           /\ i = loops /\ post_samples = loops /\ live = 0
           /\ pc \in {"exit_stack", "teardown", "done"}
           /\ pending.kind = "none"
           /\ dt = now - start_time
           /\ start_time = 0)
    /\ (pending.kind # "none" => perf_reads <= 1 /\ dt = 0)
    /\ (pc = "done" /\ ResultLines(stdout) => perf_reads = 2)

\* C16 witness: a failing run that read the clock once, at the start
C16_Witness ==
    /\ pc = "done" /\ ChildFailed /\ i = 2 /\ perf_reads = 1 /\ dt = 0

\* C17: at most one child exists at any time, and a child is spawned only
\* when every earlier child has exited with status 0, been post-sampled and,
\* with profiling, had its temporary output merged.
C17_NoOverlap ==
    /\ live \in 0..1
    /\ (live = 1 <=> proc = "running")
    /\ spawned <= i + 1
    /\ (pc \in {"spawn", "wait"} =>
           /\ spawned \in {i, i + 1}
           /\ post_samples = i
           /\ (Profiling => tmp = Absent)
           /\ (Profiling /\ i > 0 => dst = StatsFile(Plus(dst0.stats, run_sum))))
    /\ (pc = "spawn" => exitcode = 0 /\ live = 0 /\ spawned = i)

\* C17 witness: the third child is running after two merged iterations
C17_Witness ==
    /\ Profiling /\ pc = "wait" /\ live = 1 /\ spawned = 3 /\ i = 2
    /\ post_samples = 2

\* C18 (as claimed): with profiling, once a child after the first iteration
\* has failed, the artifact holds exactly the sum of the earlier runs.
C18_FailureLeavesSumOfRuns ==
    (Profiling /\ ChildFailed /\ i >= 1) => dst = StatsFile(run_sum)

\* C18 (amended): with profiling, once a child after the first iteration has
\* failed, the artifact holds what was at the path when the harness started
\* plus the sum of the earlier runs; the failing run adds nothing to it.
C18_FailureLeavesPriorPlusRuns ==
    (Profiling /\ ChildFailed /\ i >= 1) =>
        dst = StatsFile(Plus(dst0.stats, run_sum))

\* C18 witness: the third child failed after writing its temporary output,
\* on top of an earlier profile
C18_Witness ==
    /\ Profiling /\ ChildFailed /\ i = 2 /\ pc = "done" /\ dst0.exists
    /\ Total(run_sum) >= 2 /\ pending.kind = "SystemExit"

EnterFailed == pending.kind = "Exception" /\ pending.step = "enter"

\* C19: when a hook's __enter__ raises, only the hooks entered before it are
\* exited, last entered first; the failing hook and the later ones are never
\* exited; no child is spawned, no teardown runs, nothing is written to
\* stdout, and the harness ends with a non-zero status.
C19_EnterFailure ==
    EnterFailed =>
        /\ Len(entered) < Len(hook_managers)
        /\ entered = SubSeq(hook_managers, 1, Len(entered))
        /\ exited \o Reverse(stack) = Reverse(entered)
        /\ spawned = 0 /\ pre_samples = 0 /\ perf_reads = 0
        /\ torndown = <<>>
        /\ stdout = <<>>
        /\ pc \in {"exit_stack", "done"}
        /\ (pc = "done" => exited = Reverse(entered) /\ exitstatus # 0)

\* C19 witness: the second of two hooks failed to enter; the first was exited
C19_Witness ==
    /\ EnterFailed /\ pc = "done" /\ Len(hook_managers) = 2
    /\ entered = <<hook_managers[1]>> /\ exited = entered
====
